---- MODULE Spec2Model ----
(***************************************************************************)
(* The Auth module of react-native-firebase (lib/modules/auth/index.js):   *)
(* the bridge that turns native auth notifications and the results of      *)
(* direct operations into the current-user snapshot and the public         *)
(* listener topics, and the demultiplexer of phone-auth phase events.      *)
(***************************************************************************)
EXTENDS Integers, Sequences, FiniteSets

\* ------------------------------------------------------------------ bounds
MaxSubs == 2
MaxPending == 1
MaxInFlight == 2
MaxKeyless == 2

\* ------------------------------------------------------------ input domains
Apps == {"appA", "appB"}
Uids == {"u1", "u2"}
Fns == {"f", "g"}
Infos == {"undefined", "info1"}
Errors == {"auth/network-request-failed", "auth/wrong-password"}
PhoneStates == {"s1"}
RequestKeys == {<<"k1">>, <<"k1", ":", "error">>}
PhoneNumbers == {"+15551234567"}
\* the place of a request that was started and has no request key yet
NoKey == <<>>

\* ------------------------------------------------------------ JS values
undefined == [tag |-> "undefined"]
null == [tag |-> "null"]
NativeUser(uid) == [tag |-> "object", uid |-> uid]
NativeUsers == {NativeUser(u) : u \in Uids}
RawUsers == NativeUsers \cup {undefined, null}
NativeUserCredentials ==
  {[user |-> nu, additionalUserInfo |-> i] : nu \in NativeUsers, i \in Infos}

\* JavaScript truthiness of a raw user payload (`user ? ... : null`)
Truthy(v) == v.tag \notin {"undefined", "null"}

\* new User(auth, user)
User(auth, user) == [tag |-> "User", auth |-> auth, _user |-> user]

\* `x || null`
OrNull(x) == IF Truthy(x) THEN x ELSE null

\* ------------------------------------------------------------ topics
NATIVE_EVENTS ==
  <<"auth_state_changed", "auth_id_token_changed", "phone_auth_state_changed">>
PublicEvents == {"onAuthStateChanged", "onIdTokenChanged", "onUserChanged"}
PhaseTypes == {"codeSent", "autoVerifyTimeout", "autoVerified", "error"}
TerminalPhases == {"autoVerified", "error"}

\* getAppEventName(module, eventName): `${app._name}-${eventName}`
getAppEventName(app, eventName) == <<app, "-", eventName>>

\* eventKey without the request key: every request on the same four topics
eventKey_withoutRequestKey(requestKey, type) ==
  <<"phone", ":", "auth", ":", type>>

\* `phone:auth:${event.requestKey}:${event.type}`
eventKey(requestKey, type) ==
  <<"phone", ":", "auth", ":">> \o requestKey \o <<":", type>>

AllTopics ==
  {getAppEventName(a, n) : a \in Apps, n \in PublicEvents}
    \cup {eventKey(k, t) : k \in RequestKeys, t \in PhaseTypes}

\* ------------------------------------------------------------ listeners
\* an application callback passed to onAuthStateChanged & co.
Callback(fn) == [fn |-> fn, app |-> "", requestKey |-> <<>>]
\* the handler a verification request subscribes for one of its phases
PhaseHandler(app, requestKey, type) ==
  [fn |-> type, app |-> app, requestKey |-> requestKey]
IsPhaseHandler(l) == l.app # ""

VARIABLES
  _user,          \* [Apps -> User | null]          Auth._user
  _authResult,    \* [Apps -> BOOLEAN]              Auth._authResult
  subscriptions,  \* [AllTopics -> Seq(listener)]   SharedEventEmitter registry
  handles,        \* unsubscribe closures handed out: set of [topic, listener]
  pending,        \* provider calls in flight, in the order they were started
  requests,       \* state of the verification request of an application and
                  \* key; at NoKey, how many requests still wait for their key
  lastState,      \* [Apps -> raw user] most recent auth_state_changed payload
  calls,          \* listener invocations made by the last step, in order
  last            \* the last operation: kind, app, argument, value returned

vars == <<_user, _authResult, subscriptions, handles, pending, requests,
          lastState, calls, last>>

\* ------------------------------------------------------------ event emitter
\* SharedEventEmitter.addListener(eventType, listener)
addListener(subs, eventType, listener) ==
  [subs EXCEPT ![eventType] = Append(@, listener)]

\* SharedEventEmitter.removeListener(eventType, listener)
removeListener(subs, eventType, listener) ==
  [subs EXCEPT ![eventType] = SelectSeq(@, LAMBDA x : x # listener)]

\* A listener that, when it runs on a topic of an application, calls
\* auth[method](listener) on that application, unless `listener` is on
\* that method's topic already.  Callbacks and phase handlers call nothing.
Registrar(method, listener) ==
  [fn |-> "registrar", app |-> "", requestKey |-> <<>>, registers |-> method,
   listener |-> listener]
IsRegistrar(l) == "registers" \in DOMAIN l
Registers(subs, topic, l) ==
  /\ IsRegistrar(l)
  /\ \A i \in DOMAIN subs[getAppEventName(topic[1], l.registers)] :
       subs[getAppEventName(topic[1], l.registers)][i] # l.listener

\* listener(payload): the invocations made while it runs.  A listener of a
\* public topic runs after _authResult was set and with this._user as its
\* payload, so the registration it makes replays `this._user || null`.
invoked(subs, l, topic, payload) ==
  <<[listener |-> l, topic |-> topic, payload |-> payload]>>
    \o IF Registers(subs, topic, l)
       THEN <<[listener |-> l.listener,
               topic |-> getAppEventName(topic[1], l.registers),
               payload |-> OrNull(payload)]>>
       ELSE <<>>

\* listener(payload): the registry once it has run
listened(subs, l, topic) ==
  IF Registers(subs, topic, l)
  THEN addListener(subs, getAppEventName(topic[1], l.registers), l.listener)
  ELSE subs

RECURSIVE deliver(_, _, _, _, _)
deliver(subs, cs, ls, topic, payload) ==
  IF ls = <<>> THEN [subs |-> subs, calls |-> cs]
  ELSE deliver(listened(subs, Head(ls), topic),
               cs \o invoked(subs, Head(ls), topic, payload),
               Tail(ls), topic, payload)

\* SharedEventEmitter.emit(eventType, payload): the invocations it makes,
\* the listeners of eventType run in subscription order
emit(subs, eventType, payload) ==
  deliver(subs, <<>>, subs[eventType], eventType, payload).calls

\* SharedEventEmitter.emit(eventType, payload): the registry when it returns
afterEmit(subs, eventType) ==
  deliver(subs, <<>>, subs[eventType], eventType, undefined).subs

NumSubs(subs, topics) ==
  LET RECURSIVE Sum(_)
      Sum(S) == IF S = {} THEN 0
                ELSE LET t == CHOOSE x \in S : TRUE
                     IN Len(subs[t]) + Sum(S \ {t})
  IN Sum(topics)

PublicTopics == {getAppEventName(a, n) : a \in Apps, n \in PublicEvents}


\* ------------------------------------------------------------ Auth internals
\* _setUser that keeps the old snapshot when the payload has no user
_setUser_keepsUserOnAbsent(app, user) ==
  LET u == IF Truthy(user) THEN User(app, user) ELSE _user[app]
  IN [authResult |-> TRUE,
      user |-> u,
      calls |-> emit(subscriptions, getAppEventName(app, "onUserChanged"), u),
      ret |-> u]

\* _setUser that publishes on the topic of one fixed application
_setUser_onDefaultApp(app, user) ==
  LET u == IF Truthy(user) THEN User(app, user) ELSE null
  IN [authResult |-> TRUE,
      user |-> u,
      calls |-> emit(subscriptions, getAppEventName("appA", "onUserChanged"),
                     u),
      ret |-> u]

\* _setUser whose flag says whether there is a user now
_setUser_flagFollowsUser(app, user) ==
  LET u == IF Truthy(user) THEN User(app, user) ELSE null
  IN [authResult |-> Truthy(user),
      user |-> u,
      calls |-> emit(subscriptions, getAppEventName(app, "onUserChanged"), u),
      ret |-> u]

\* Auth._setUser(user): what it assigns, publishes and returns
_setUser(app, user) ==
  LET u == IF Truthy(user) THEN User(app, user) ELSE null
  IN [authResult |-> TRUE,
      user |-> u,
      calls |-> emit(subscriptions, getAppEventName(app, "onUserChanged"), u),
      ret |-> u]

\* _setUserCredential that returns the user without additionalUserInfo
_setUserCredential_dropsInfo(app, userCredential) ==
  LET user == User(app, userCredential.user)
  IN [authResult |-> TRUE,
      user |-> user,
      calls |-> emit(subscriptions, getAppEventName(app, "onUserChanged"),
                     user),
      ret |-> [additionalUserInfo |-> "undefined", user |-> user]]

\* Auth._setUserCredential(userCredential)
_setUserCredential(app, userCredential) ==
  LET user == User(app, userCredential.user)
  IN [authResult |-> TRUE,
      user |-> user,
      calls |-> emit(subscriptions, getAppEventName(app, "onUserChanged"),
                     user),
      ret |-> [additionalUserInfo |-> userCredential.additionalUserInfo,
               user |-> user]]

\* the snapshot and flag of one Auth instance, as an operation found them
Before(app) == [user |-> _user[app], authResult |-> _authResult[app]]

Init ==
  /\ _user = [a \in Apps |-> null]
  /\ _authResult = [a \in Apps |-> FALSE]
  /\ subscriptions = [t \in AllTopics |-> <<>>]
  /\ handles = {}
  /\ pending = <<>>
  /\ requests = [r \in Apps \X (RequestKeys \cup {NoKey}) |->
                   IF r[2] = NoKey THEN 0 ELSE "Unused"]
  /\ lastState = [a \in Apps |-> [tag |-> "none"]]
  /\ calls = <<>>
  /\ last = [kind |-> "constructor", app |-> "", arg |-> undefined,
             ret |-> undefined, before |-> undefined]

\* ------------------------------------------------------------ native events
\* auth_state_changed handler that publishes the snapshot it found
AuthStateChanged_staleSnapshot(app, state) ==
  LET r == _setUser(app, state.user)
  IN /\ _authResult' = [_authResult EXCEPT ![app] = r.authResult]
     /\ _user' = [_user EXCEPT ![app] = r.user]
     /\ calls' = r.calls \o emit(subscriptions,
                                 getAppEventName(app, "onAuthStateChanged"),
                                 _user[app])
     /\ lastState' = [lastState EXCEPT ![app] = state.user]
     /\ last' = [kind |-> "auth_state_changed", app |-> app, arg |-> state,
                 ret |-> undefined, before |-> Before(app)]
     /\ UNCHANGED <<subscriptions, handles, pending, requests>>

\* listener of getAppEventName(this, 'auth_state_changed')
AuthStateChanged(app, state) ==
  LET r == _setUser(app, state.user)
      heard == afterEmit(subscriptions,
                         getAppEventName(app, "onUserChanged"))
  IN /\ _authResult' = [_authResult EXCEPT ![app] = r.authResult]
     /\ _user' = [_user EXCEPT ![app] = r.user]
     /\ calls' = r.calls
                   \o emit(heard, getAppEventName(app, "onAuthStateChanged"), r.user)
     /\ subscriptions' =
          afterEmit(heard, getAppEventName(app, "onAuthStateChanged"))
     /\ lastState' = [lastState EXCEPT ![app] = state.user]
     /\ last' = [kind |-> "auth_state_changed", app |-> app, arg |-> state,
                 ret |-> undefined, before |-> Before(app)]
     /\ UNCHANGED <<handles, pending, requests>>

\* auth_id_token_changed handler that also publishes onAuthStateChanged
IdTokenChanged_alsoAuthState(app, auth) ==
  LET r == _setUser(app, auth.user)
  IN /\ _authResult' = [_authResult EXCEPT ![app] = r.authResult]
     /\ _user' = [_user EXCEPT ![app] = r.user]
     /\ calls' = r.calls
                   \o emit(subscriptions,
                           getAppEventName(app, "onAuthStateChanged"), r.user)
                   \o emit(subscriptions,
                           getAppEventName(app, "onIdTokenChanged"), r.user)
     /\ last' = [kind |-> "auth_id_token_changed", app |-> app, arg |-> auth,
                 ret |-> undefined, before |-> Before(app)]
     /\ UNCHANGED <<subscriptions, handles, pending, requests, lastState>>

\* listener of getAppEventName(this, 'auth_id_token_changed')
IdTokenChanged(app, auth) ==
  LET r == _setUser(app, auth.user)
      heard == afterEmit(subscriptions,
                         getAppEventName(app, "onUserChanged"))
  IN /\ _authResult' = [_authResult EXCEPT ![app] = r.authResult]
     /\ _user' = [_user EXCEPT ![app] = r.user]
     /\ calls' = r.calls
                   \o emit(heard, getAppEventName(app, "onIdTokenChanged"), r.user)
     /\ subscriptions' =
          afterEmit(heard, getAppEventName(app, "onIdTokenChanged"))
     /\ last' = [kind |-> "auth_id_token_changed", app |-> app, arg |-> auth,
                 ret |-> undefined, before |-> Before(app)]
     /\ UNCHANGED <<handles, pending, requests, lastState>>

\* ------------------------------------------------------------ listener API
\* onAuthStateChanged that replays to every listener of the topic
onAuthStateChanged_replaysToAll(app, listener) ==
  LET topic == getAppEventName(app, "onAuthStateChanged")
  IN /\ NumSubs(subscriptions, PublicTopics) < MaxSubs
     /\ subscriptions' = addListener(subscriptions, topic, listener)
     /\ calls' = IF _authResult[app]
                 THEN emit(addListener(subscriptions, topic, listener), topic,
                           OrNull(_user[app]))
                 ELSE <<>>
     /\ handles' = handles \cup {[topic |-> topic, listener |-> listener]}
     /\ last' = [kind |-> "onAuthStateChanged", app |-> app, arg |-> listener,
                 ret |-> [topic |-> topic, listener |-> listener],
                 before |-> Before(app)]
     /\ UNCHANGED <<_user, _authResult, pending, requests, lastState>>

\* Auth.onAuthStateChanged(listener)
onAuthStateChanged(app, listener) ==
  LET topic == getAppEventName(app, "onAuthStateChanged")
      added == addListener(subscriptions, topic, listener)
  IN /\ NumSubs(subscriptions, PublicTopics) < MaxSubs
     /\ subscriptions' = IF _authResult[app]
                         THEN listened(added, listener, topic)
                         ELSE added
     /\ calls' = IF _authResult[app]
                 THEN invoked(added, listener, topic, OrNull(_user[app]))
                 ELSE <<>>
     /\ handles' = handles \cup {[topic |-> topic, listener |-> listener]}
     /\ last' = [kind |-> "onAuthStateChanged", app |-> app, arg |-> listener,
                 ret |-> [topic |-> topic, listener |-> listener],
                 before |-> Before(app)]
     /\ UNCHANGED <<_user, _authResult, pending, requests, lastState>>

\* Auth.onIdTokenChanged(listener)
onIdTokenChanged(app, listener) ==
  LET topic == getAppEventName(app, "onIdTokenChanged")
      added == addListener(subscriptions, topic, listener)
  IN /\ NumSubs(subscriptions, PublicTopics) < MaxSubs
     /\ subscriptions' = IF _authResult[app]
                         THEN listened(added, listener, topic)
                         ELSE added
     /\ calls' = IF _authResult[app]
                 THEN invoked(added, listener, topic, OrNull(_user[app]))
                 ELSE <<>>
     /\ handles' = handles \cup {[topic |-> topic, listener |-> listener]}
     /\ last' = [kind |-> "onIdTokenChanged", app |-> app, arg |-> listener,
                 ret |-> [topic |-> topic, listener |-> listener],
                 before |-> Before(app)]
     /\ UNCHANGED <<_user, _authResult, pending, requests, lastState>>

\* onUserChanged that replays without looking at _authResult
onUserChanged_alwaysReplays(app, listener) ==
  LET topic == getAppEventName(app, "onUserChanged")
  IN /\ NumSubs(subscriptions, PublicTopics) < MaxSubs
     /\ subscriptions' = addListener(subscriptions, topic, listener)
     /\ calls' = <<[listener |-> listener, topic |-> topic,
                    payload |-> OrNull(_user[app])]>>
     /\ handles' = handles \cup {[topic |-> topic, listener |-> listener]}
     /\ last' = [kind |-> "onUserChanged", app |-> app, arg |-> listener,
                 ret |-> [topic |-> topic, listener |-> listener],
                 before |-> Before(app)]
     /\ UNCHANGED <<_user, _authResult, pending, requests, lastState>>

\* Auth.onUserChanged(listener)
onUserChanged(app, listener) ==
  LET topic == getAppEventName(app, "onUserChanged")
      added == addListener(subscriptions, topic, listener)
  IN /\ NumSubs(subscriptions, PublicTopics) < MaxSubs
     /\ subscriptions' = IF _authResult[app]
                         THEN listened(added, listener, topic)
                         ELSE added
     /\ calls' = IF _authResult[app]
                 THEN invoked(added, listener, topic, OrNull(_user[app]))
                 ELSE <<>>
     /\ handles' = handles \cup {[topic |-> topic, listener |-> listener]}
     /\ last' = [kind |-> "onUserChanged", app |-> app, arg |-> listener,
                 ret |-> [topic |-> topic, listener |-> listener],
                 before |-> Before(app)]
     /\ UNCHANGED <<_user, _authResult, pending, requests, lastState>>

\* how many registrations of the closure's listener its topic holds
RegisteredBefore(app, h) ==
  [user |-> _user[app], authResult |-> _authResult[app],
   registered |-> Len(SelectSeq(subscriptions[h.topic],
                                LAMBDA x : x = h.listener))]

\* returned closure that takes one registration of the listener away
unsubscribe_oneRegistration(app, h) ==
  LET at == {i \in DOMAIN subscriptions[h.topic] :
               subscriptions[h.topic][i] = h.listener}
      first == CHOOSE i \in at : \A j \in at : i <= j
  IN /\ h \in handles
     /\ h.topic[1] = app
     /\ subscriptions' =
          IF at = {} THEN subscriptions
          ELSE [subscriptions EXCEPT ![h.topic] =
                  SubSeq(@, 1, first - 1) \o SubSeq(@, first + 1, Len(@))]
     /\ calls' = <<>>
     /\ last' = [kind |-> "unsubscribe", app |-> app, arg |-> h,
                 ret |-> undefined, before |-> RegisteredBefore(app, h)]
     /\ UNCHANGED <<_user, _authResult, handles, pending, requests, lastState>>

\* returned closure that names the topic of onAuthStateChanged whichever
\* registration method handed it out
unsubscribe_fromAuthStateTopic(app, h) ==
  /\ h \in handles
  /\ h.topic[1] = app
  /\ subscriptions' =
       removeListener(subscriptions,
                      getAppEventName(app, "onAuthStateChanged"), h.listener)
  /\ calls' = <<>>
  /\ last' = [kind |-> "unsubscribe", app |-> app, arg |-> h,
              ret |-> undefined, before |-> RegisteredBefore(app, h)]
  /\ UNCHANGED <<_user, _authResult, handles, pending, requests, lastState>>

\* the closure returned by onAuthStateChanged / onIdTokenChanged /
\* onUserChanged: SharedEventEmitter.removeListener(topic, listener)
unsubscribe(app, h) ==
  /\ h \in handles
  /\ h.topic[1] = app
  /\ subscriptions' = removeListener(subscriptions, h.topic, h.listener)
  /\ calls' = <<>>
  /\ last' = [kind |-> "unsubscribe", app |-> app, arg |-> h,
              ret |-> undefined, before |-> RegisteredBefore(app, h)]
  /\ UNCHANGED <<_user, _authResult, handles, pending, requests, lastState>>


\* ------------------------------------------------------------ direct operations
SetUserOps ==
  {"signInAnonymously", "createUserWithEmailAndPassword",
   "signInWithEmailAndPassword", "signInWithCustomToken",
   "signInWithCredential"}
CredentialOps ==
  {"signInAnonymouslyAndRetrieveData",
   "createUserAndRetrieveDataWithEmailAndPassword",
   "signInAndRetrieveDataWithEmailAndPassword",
   "signInAndRetrieveDataWithCustomToken",
   "signInAndRetrieveDataWithCredential"}
DirectOps == {"signOut"} \cup SetUserOps \cup CredentialOps

Remove(seq, i) == SubSeq(seq, 1, i - 1) \o SubSeq(seq, i + 1, Len(seq))

\* the synchronous part of signOut / signIn* / createUser*: the call into
\* getNativeModule(this), which returns a promise (a suspension point)
\* with at most `limit` calls in flight.  `overtaken` remembers that a
\* signOut of the same application, started later, has resolved meanwhile.
nativeCallUpTo(app, op, limit) ==
  /\ Len(pending) < limit
  /\ pending' = Append(pending, [app |-> app, op |-> op, overtaken |-> FALSE])
  /\ calls' = <<>>
  /\ last' = [kind |-> "call", app |-> app, arg |-> op, ret |-> undefined,
              before |-> Before(app)]
  /\ UNCHANGED <<_user, _authResult, subscriptions, handles, requests,
                 lastState>>

nativeCall(app, op) == nativeCallUpTo(app, op, MaxPending)

\* the calls still in flight once the signOut at position i has resolved
Overtake(i) ==
  Remove([j \in DOMAIN pending |->
            IF j < i /\ pending[j].app = pending[i].app
            THEN [pending[j] EXCEPT !.overtaken = TRUE]
            ELSE pending[j]], i)

\* signOut that resolves without calling _setUser
signOutResolved_keepsUser(i) ==
  /\ i \in 1..Len(pending)
  /\ pending[i].op = "signOut"
  /\ LET app == pending[i].app
     IN last' = [kind |-> "resolved", app |-> app,
                 arg |-> [op |-> pending[i].op, result |-> undefined],
                 ret |-> [status |-> "resolved", value |-> undefined],
                 before |-> Before(app)]
  /\ calls' = <<>>
  /\ pending' = Remove(pending, i)
  /\ UNCHANGED <<_user, _authResult, subscriptions, handles, requests,
                 lastState>>

\* signOut: .then(() => { this._setUser(); })
signOutResolved(i) ==
  /\ i \in 1..Len(pending)
  /\ pending[i].op = "signOut"
  /\ LET app == pending[i].app
         r == _setUser(app, undefined)
     IN /\ _authResult' = [_authResult EXCEPT ![app] = r.authResult]
        /\ _user' = [_user EXCEPT ![app] = r.user]
        /\ calls' = r.calls
        /\ subscriptions' =
             afterEmit(subscriptions, getAppEventName(app, "onUserChanged"))
        /\ last' = [kind |-> "resolved", app |-> app,
                    arg |-> [op |-> pending[i].op, result |-> undefined],
                    ret |-> [status |-> "resolved", value |-> undefined],
                    before |-> Before(app)]
  /\ pending' = Overtake(i)
  /\ UNCHANGED <<handles, requests, lastState>>

\* signInAnonymously & co.: .then(user => this._setUser(user))
setUserResolved(i, user) ==
  /\ i \in 1..Len(pending)
  /\ pending[i].op \in SetUserOps
  /\ LET app == pending[i].app
         r == _setUser(app, user)
     IN /\ _authResult' = [_authResult EXCEPT ![app] = r.authResult]
        /\ _user' = [_user EXCEPT ![app] = r.user]
        /\ calls' = r.calls
        /\ subscriptions' =
             afterEmit(subscriptions, getAppEventName(app, "onUserChanged"))
        /\ last' = [kind |-> "resolved", app |-> app,
                    arg |-> [op |-> pending[i].op, result |-> user,
                            overtaken |-> pending[i].overtaken],
                    ret |-> [status |-> "resolved", value |-> r.ret],
                    before |-> Before(app)]
  /\ pending' = Remove(pending, i)
  /\ UNCHANGED <<handles, requests, lastState>>

\* a sign-in that gives way to a signOut that resolved while it was in
\* flight
credentialResolved_unlessSignedOut(i, userCredential) ==
  /\ i \in 1..Len(pending)
  /\ pending[i].op \in CredentialOps
  /\ LET app == pending[i].app
         r == _setUserCredential(app, userCredential)
         kept == pending[i].overtaken
     IN /\ _authResult' = [_authResult EXCEPT ![app] = r.authResult]
        /\ _user' = IF kept THEN _user ELSE [_user EXCEPT ![app] = r.user]
        /\ calls' = IF kept THEN <<>> ELSE r.calls
        /\ last' = [kind |-> "resolved", app |-> app,
                    arg |-> [op |-> pending[i].op, result |-> userCredential,
                            overtaken |-> pending[i].overtaken],
                    ret |-> [status |-> "resolved", value |-> r.ret],
                    before |-> Before(app)]
  /\ pending' = Remove(pending, i)
  /\ UNCHANGED <<subscriptions, handles, requests, lastState>>

\* signInAnonymouslyAndRetrieveData & co.:
\* .then(userCredential => this._setUserCredential(userCredential))
credentialResolved(i, userCredential) ==
  /\ i \in 1..Len(pending)
  /\ pending[i].op \in CredentialOps
  /\ LET app == pending[i].app
         r == _setUserCredential(app, userCredential)
     IN /\ _authResult' = [_authResult EXCEPT ![app] = r.authResult]
        /\ _user' = [_user EXCEPT ![app] = r.user]
        /\ calls' = r.calls
        /\ subscriptions' =
             afterEmit(subscriptions, getAppEventName(app, "onUserChanged"))
        /\ last' = [kind |-> "resolved", app |-> app,
                    arg |-> [op |-> pending[i].op, result |-> userCredential,
                            overtaken |-> pending[i].overtaken],
                    ret |-> [status |-> "resolved", value |-> r.ret],
                    before |-> Before(app)]
  /\ pending' = Remove(pending, i)
  /\ UNCHANGED <<handles, requests, lastState>>

\* a rejection handled like a fulfilment with no user: `.then(f, f)`
rejected_runsSetUser(i, error) ==
  /\ i \in 1..Len(pending)
  /\ LET app == pending[i].app
         r == _setUser(app, undefined)
     IN /\ _authResult' = [_authResult EXCEPT ![app] = r.authResult]
        /\ _user' = [_user EXCEPT ![app] = r.user]
        /\ calls' = r.calls
        /\ last' = [kind |-> "rejected", app |-> app,
                    arg |-> [op |-> pending[i].op, result |-> error],
                    ret |-> [status |-> "resolved", value |-> r.ret],
                    before |-> Before(app)]
  /\ pending' = Remove(pending, i)
  /\ UNCHANGED <<subscriptions, handles, requests, lastState>>

\* the provider call of any direct operation is rejected: `.then(onFulfilled)`
\* has no rejection handler, so the returned promise rejects with the same error
rejected(i, error) ==
  /\ i \in 1..Len(pending)
  /\ LET app == pending[i].app
     IN last' = [kind |-> "rejected", app |-> app,
                 arg |-> [op |-> pending[i].op, result |-> error],
                 ret |-> [status |-> "rejected", value |-> error],
                 before |-> Before(app)]
  /\ calls' = <<>>
  /\ pending' = Remove(pending, i)
  /\ UNCHANGED <<_user, _authResult, subscriptions, handles, requests,
                 lastState>>


\* ------------------------------------------------------------ unsupported methods
UnsupportedMethods ==
  {"getRedirectResult", "setPersistence", "signInWithPopup",
   "signInWithRedirect", "useDeviceLanguage"}

\* INTERNALS.STRINGS.ERROR_UNSUPPORTED_MODULE_METHOD(namespace, method)
ERROR_UNSUPPORTED_MODULE_METHOD(namespace, method) ==
  <<"unsupported", namespace, method>>

\* an unsupported method that returns without throwing
unsupportedMethod_silent(app, method) ==
  /\ calls' = <<>>
  /\ last' = [kind |-> "unsupported", app |-> app, arg |-> method,
              ret |-> [status |-> "returned", value |-> undefined],
              before |-> Before(app)]
  /\ UNCHANGED <<_user, _authResult, subscriptions, handles, pending,
                 requests, lastState>>

\* Auth.getRedirectResult / setPersistence / signInWithPopup /
\* signInWithRedirect / useDeviceLanguage: throw new Error(...)
unsupportedMethod(app, method) ==
  /\ calls' = <<>>
  /\ last' = [kind |-> "unsupported", app |-> app, arg |-> method,
              ret |-> [status |-> "thrown",
                       value |-> ERROR_UNSUPPORTED_MODULE_METHOD("auth",
                                                                 method)],
              before |-> Before(app)]
  /\ UNCHANGED <<_user, _authResult, subscriptions, handles, pending,
                 requests, lastState>>

\* ------------------------------------------------------------ phone verification
RequestOf(l) == <<l.app, l.requestKey>>

\* a request that still expects phase notifications
InFlight == {"Started", "CodeSent", "TimedOut"}

\* PhoneAuthListener, once the provider has yielded the request key: the
\* request subscribes one handler per phase on its private topics
PhoneAuthListener(subs, app, requestKey) ==
  [t \in AllTopics |->
     LET mine == {p \in PhaseTypes : eventKey(requestKey, p) = t}
         RECURSIVE Add(_, _)
         Add(seq, S) == IF S = {} THEN seq
                        ELSE LET p == CHOOSE x \in S : TRUE
                             IN Add(Append(seq, PhaseHandler(app, requestKey, p)),
                                    S \ {p})
     IN Add(subs[t], mine)]

\* the state of a verification request after one of its phase handlers ran
phaseDelivered(state, type) ==
  IF state \in {"AutoVerified", "Errored", "AfterTerminal"} THEN "AfterTerminal"
  ELSE CASE type = "codeSent" -> "CodeSent"
         [] type = "autoVerifyTimeout" -> "TimedOut"
         [] type = "autoVerified" -> "AutoVerified"
         [] type = "error" -> "Errored"

\* the subscriptions of the requests in `done` are torn down
removeAllListeners(subs, done) ==
  [t \in AllTopics |->
     SelectSeq(subs[t],
               LAMBDA l : ~(IsPhaseHandler(l) /\ RequestOf(l) \in done))]

\* the phase handlers of PhoneAuthListener among the invocations cs
phaseHandlers(cs) ==
  {l \in {cs[i].listener : i \in DOMAIN cs} : IsPhaseHandler(l)}

\* what the phase handlers invoked in cs do while they run: each records
\* its phase in its own request ...
requestsAfter(cs) ==
  [r \in DOMAIN requests |->
     IF \E l \in phaseHandlers(cs) : RequestOf(l) = r
     THEN phaseDelivered(requests[r],
            (CHOOSE l \in phaseHandlers(cs) : RequestOf(l) = r).fn)
     ELSE requests[r]]

\* ... and a terminal one tears down the subscriptions of its own request
subscriptionsAfter(cs) ==
  removeAllListeners(subscriptions,
    {RequestOf(l) : l \in {h \in phaseHandlers(cs) : h.fn \in TerminalPhases}})

\* Auth.verifyPhoneNumber(phoneNumber, autoVerifyTimeout): it returns a new
\* PhoneAuthListener, whose request has no key before the provider
\* acknowledges.  The code refuses no call; the number of requests waiting
\* for their key is capped by MaxKeyless.
verifyPhoneNumber(app, phoneNumber, autoVerifyTimeout) ==
  /\ requests[<<app, NoKey>>] < MaxKeyless
  /\ requests' = [requests EXCEPT ![<<app, NoKey>>] = @ + 1]
  /\ calls' = <<>>
  /\ last' = [kind |-> "verifyPhoneNumber", app |-> app,
              arg |-> [phoneNumber |-> phoneNumber,
                       autoVerifyTimeout |-> autoVerifyTimeout],
              ret |-> [tag |-> "PhoneAuthListener", auth |-> app,
                       phoneNumber |-> phoneNumber,
                       autoVerifyTimeout |-> autoVerifyTimeout],
              before |-> Before(app)]
  /\ UNCHANGED <<_user, _authResult, subscriptions, handles, pending,
                 lastState>>

\* the provider acknowledges the start of a verification and yields its
\* request key: the request subscribes to the key's topics.  A key names
\* one request in flight; the provider may yield it again once that
\* request is over, and to a request of another application.
requestKeyAssigned(app, requestKey) ==
  /\ requests[<<app, NoKey>>] > 0
  /\ requests[<<app, requestKey>>] \notin InFlight
  /\ requests' = [requests EXCEPT ![<<app, NoKey>>] = @ - 1,
                                  ![<<app, requestKey>>] = "Started"]
  /\ subscriptions' = PhoneAuthListener(subscriptions, app, requestKey)
  /\ calls' = <<>>
  /\ last' = [kind |-> "requestKeyAssigned", app |-> app, arg |-> requestKey,
              ret |-> undefined, before |-> Before(app)]
  /\ UNCHANGED <<_user, _authResult, handles, pending, lastState>>

\* phone_auth_state_changed handler that hands the phase name to the
\* listeners
PhoneAuthStateChanged_emitsType(app, event) ==
  LET cs == emit(subscriptions, eventKey(event.requestKey, event.type),
                 event.type)
  IN /\ calls' = cs
     /\ requests' = requestsAfter(cs)
     /\ subscriptions' = subscriptionsAfter(cs)
     /\ last' = [kind |-> "phone_auth_state_changed", app |-> app,
                 arg |-> event, ret |-> undefined, before |-> Before(app)]
     /\ UNCHANGED <<_user, _authResult, handles, pending, lastState>>

\* phone_auth_state_changed handler that signs the verified user in
PhoneAuthStateChanged_signsIn(app, event) ==
  LET cs == emit(subscriptions, eventKey(event.requestKey, event.type),
                 event.state)
      r == _setUser(app, NativeUser("u1"))
      verified == event.type = "autoVerified"
  IN /\ calls' = IF verified THEN cs \o r.calls ELSE cs
     /\ requests' = requestsAfter(cs)
     /\ subscriptions' = subscriptionsAfter(cs)
     /\ _user' = IF verified THEN [_user EXCEPT ![app] = r.user] ELSE _user
     /\ _authResult' = IF verified
                       THEN [_authResult EXCEPT ![app] = r.authResult]
                       ELSE _authResult
     /\ last' = [kind |-> "phone_auth_state_changed", app |-> app,
                 arg |-> event, ret |-> undefined, before |-> Before(app)]
     /\ UNCHANGED <<handles, pending, lastState>>

\* listener of getAppEventName(this, 'phone_auth_state_changed'): it builds
\* eventKey and emits event.state on it, for every event and whatever the
\* key has seen before; it keeps no state of its own.  The listeners that
\* emit runs to completion are PhoneAuthListener's phase handlers, and
\* requestsAfter / subscriptionsAfter is what they do.
PhoneAuthStateChanged(app, event) ==
  LET cs == emit(subscriptions, eventKey(event.requestKey, event.type),
                 event.state)
  IN /\ calls' = cs
     /\ requests' = requestsAfter(cs)
     /\ subscriptions' = subscriptionsAfter(cs)
     /\ last' = [kind |-> "phone_auth_state_changed", app |-> app,
                 arg |-> event, ret |-> undefined, before |-> Before(app)]
     /\ UNCHANGED <<_user, _authResult, handles, pending, lastState>>

\* ------------------------------------------------------------ specifications
States == {[user |-> u] : u \in RawUsers}
PhoneEvents ==
  {[requestKey |-> k, type |-> t, state |-> s] :
     k \in RequestKeys, t \in PhaseTypes, s \in PhoneStates}
Listeners == {Callback(fn) : fn \in Fns}

\* only the two state notifications and the listener API, one application
NextEvents ==
  \/ \E s \in States : AuthStateChanged("appA", s)
  \/ \E s \in States : IdTokenChanged("appA", s)
  \/ \E l \in Listeners : onAuthStateChanged("appA", l)
  \/ \E l \in Listeners : onIdTokenChanged("appA", l)
  \/ \E l \in Listeners : onUserChanged("appA", l)
SpecEvents == Init /\ [][NextEvents]_vars

\* one application: notifications, listener API and direct operations
SyncOps ==
  {"signOut", "signInAnonymously", "signInAnonymouslyAndRetrieveData"}
NextSync ==
  \/ \E s \in States : AuthStateChanged("appA", s)
  \/ \E s \in States : IdTokenChanged("appA", s)
  \/ \E l \in Listeners : onAuthStateChanged("appA", l)
  \/ \E l \in Listeners : onIdTokenChanged("appA", l)
  \/ \E l \in Listeners : onUserChanged("appA", l)
  \/ \E op \in SyncOps : nativeCall("appA", op)
  \/ \E i \in 1..Len(pending) : signOutResolved(i)
  \/ \E i \in 1..Len(pending), u \in NativeUsers : setUserResolved(i, u)
  \/ \E i \in 1..Len(pending), c \in NativeUserCredentials :
       credentialResolved(i, c)
  \/ \E i \in 1..Len(pending), e \in Errors : rejected(i, e)
SpecSync == Init /\ [][NextSync]_vars

\* one application: every direct operation and the listener API
NextOps ==
  \/ \E l \in Listeners : onAuthStateChanged("appA", l)
  \/ \E l \in Listeners : onIdTokenChanged("appA", l)
  \/ \E l \in Listeners : onUserChanged("appA", l)
  \/ \E op \in DirectOps : nativeCall("appA", op)
  \/ \E i \in 1..Len(pending) : signOutResolved(i)
  \/ \E i \in 1..Len(pending), u \in NativeUsers : setUserResolved(i, u)
  \/ \E i \in 1..Len(pending), c \in NativeUserCredentials :
       credentialResolved(i, c)
  \/ \E i \in 1..Len(pending), e \in Errors : rejected(i, e)
SpecOps == Init /\ [][NextOps]_vars

\* two applications side by side
AppsOps == {"signOut", "signInAnonymously"}
AppsStates == {[user |-> NativeUser("u1")], [user |-> null]}
NextApps ==
  \/ \E a \in Apps, s \in AppsStates : AuthStateChanged(a, s)
  \/ \E a \in Apps : IdTokenChanged(a, [user |-> null])
  \/ \E a \in Apps : onAuthStateChanged(a, Callback("f"))
  \/ \E a \in Apps : onUserChanged(a, Callback("f"))
  \/ \E a \in Apps, op \in AppsOps : nativeCall(a, op)
  \/ \E i \in 1..Len(pending) : signOutResolved(i)
  \/ \E i \in 1..Len(pending) : setUserResolved(i, NativeUser("u2"))
SpecApps == Init /\ [][NextApps]_vars

\* phone verification requests of two applications
NextPhone ==
  \/ \E a \in Apps, n \in PhoneNumbers : verifyPhoneNumber(a, n, undefined)
  \/ \E a \in Apps, k \in RequestKeys : requestKeyAssigned(a, k)
  \/ \E a \in Apps, e \in PhoneEvents : PhoneAuthStateChanged(a, e)
SpecPhone == Init /\ [][NextPhone]_vars

\* one application: the unsupported methods called in any session state
NextUnsupported ==
  \/ \E s \in AppsStates : AuthStateChanged("appA", s)
  \/ \E l \in Listeners : onAuthStateChanged("appA", l)
  \/ \E l \in Listeners : onUserChanged("appA", l)
  \/ nativeCall("appA", "signOut")
  \/ \E i \in 1..Len(pending) : signOutResolved(i)
  \/ \E m \in UnsupportedMethods : unsupportedMethod("appA", m)
SpecUnsupported == Init /\ [][NextUnsupported]_vars

\* one application: the listener API with its returned closures, and the
\* two state notifications
NextSubs ==
  \/ \E s \in AppsStates : AuthStateChanged("appA", s)
  \/ \E s \in AppsStates : IdTokenChanged("appA", s)
  \/ \E l \in Listeners : onAuthStateChanged("appA", l)
  \/ \E l \in Listeners : onIdTokenChanged("appA", l)
  \/ \E l \in Listeners : onUserChanged("appA", l)
  \/ \E h \in handles : unsubscribe("appA", h)
SpecSubs == Init /\ [][NextSubs]_vars

\* one application: notifications racing with direct operations, of which
\* several are in flight at once
RaceOps ==
  {"signOut", "createUserWithEmailAndPassword",
   "signInAndRetrieveDataWithEmailAndPassword"}
RaceCredentials == {[user |-> NativeUser("u1"), additionalUserInfo |-> "info1"]}
NextRace ==
  \/ \E s \in AppsStates : AuthStateChanged("appA", s)
  \/ \E s \in AppsStates : IdTokenChanged("appA", s)
  \/ onUserChanged("appA", Callback("f"))
  \/ \E op \in RaceOps : nativeCallUpTo("appA", op, MaxInFlight)
  \/ \E i \in 1..Len(pending) : signOutResolved(i)
  \/ \E i \in 1..Len(pending) : setUserResolved(i, NativeUser("u2"))
  \/ \E i \in 1..Len(pending), c \in RaceCredentials : credentialResolved(i, c)
  \/ \E i \in 1..Len(pending), e \in Errors : rejected(i, e)
SpecRace == Init /\ [][NextRace]_vars

\* one application: user-changed listeners that register a further
\* listener while a notification is being delivered
Registrars ==
  {Registrar(m, Callback("g")) : m \in {"onAuthStateChanged", "onIdTokenChanged"}}
NextReentrant ==
  \/ \E s \in AppsStates : AuthStateChanged("appA", s)
  \/ \E s \in AppsStates : IdTokenChanged("appA", s)
  \/ \E l \in Registrars : onUserChanged("appA", l)
  \/ onAuthStateChanged("appA", Callback("f"))
  \/ onIdTokenChanged("appA", Callback("f"))
SpecReentrant == Init /\ [][NextReentrant]_vars

\* one application: phone verification next to the session state
NextPhoneSession ==
  \/ \E s \in AppsStates : AuthStateChanged("appA", s)
  \/ onAuthStateChanged("appA", Callback("f"))
  \/ onIdTokenChanged("appA", Callback("f"))
  \/ onUserChanged("appA", Callback("f"))
  \/ \E n \in PhoneNumbers : verifyPhoneNumber("appA", n, undefined)
  \/ \E k \in RequestKeys : requestKeyAssigned("appA", k)
  \/ \E e \in PhoneEvents : PhoneAuthStateChanged("appA", e)
SpecPhoneSession == Init /\ [][NextPhoneSession]_vars

\* ------------------------------------------------------------ properties
Adapted(app, user) == IF Truthy(user) THEN User(app, user) ELSE null
TopicsOf(app) == {getAppEventName(app, n) : n \in PublicEvents}
StateNotifications == {"auth_state_changed", "auth_id_token_changed"}
\* one publication on `topic`: every registration invoked once, in order
OnePublication(topic, payload) ==
  /\ Len(calls) = Len(subscriptions[topic])
  /\ \A i \in DOMAIN calls :
       calls[i] = [listener |-> subscriptions[topic][i], topic |-> topic,
                   payload |-> payload]

\* C1 as stated: currentUser always equals the adapted form of the most
\* recently delivered auth_state_changed payload, however
\* auth_id_token_changed notifications are interleaved.
C1_LatestStateChangedPayload ==
  \A a \in Apps :
    lastState[a].tag # "none" => _user[a] = Adapted(a, lastState[a])

\* C1 amended: each notification of either kind (auth_state_changed or
\* auth_id_token_changed) sets currentUser to the adapted form of its own
\* payload, and nothing else changes currentUser; so currentUser equals the
\* adapted payload of the most recently delivered notification of either kind.
C1_LatestNotificationPayload ==
  [][\A a \in Apps :
       IF last'.kind \in StateNotifications /\ last'.app = a
       THEN _user'[a] = Adapted(a, last'.arg.user)
       ELSE _user'[a] = _user[a]]_vars

C1_Witness ==
  /\ last.kind = "auth_id_token_changed"
  /\ lastState["appA"] = NativeUser("u1")
  /\ last.arg.user = NativeUser("u2")
  /\ _user["appA"] = User("appA", NativeUser("u2"))

\* C2: a listener registered through onAuthStateChanged, onIdTokenChanged or
\* onUserChanged once the authoritative-result flag is set is invoked exactly
\* once inside the registration call, with currentUser, and no step other
\* than a registration or a processed notification invokes any listener.
C2_LateSubscriberReplay ==
  /\ (last.kind \in PublicEvents /\ _authResult[last.app]) =>
       calls = <<[listener |-> last.arg,
                  topic |-> getAppEventName(last.app, last.kind),
                  payload |-> _user[last.app]]>>
  /\ calls # <<>> =>
       last.kind \in PublicEvents \cup StateNotifications \cup {"resolved"}

C2_Witness ==
  /\ last.kind = "onIdTokenChanged"
  /\ _authResult[last.app]
  /\ Truthy(_user[last.app])
  /\ Len(subscriptions[getAppEventName(last.app, "onIdTokenChanged")]) = 2
  /\ Len(calls) = 1

\* C3: while the authoritative-result flag of an Auth instance is false no
\* listener registered on its three topics has been invoked.
C3_NoReplayBeforeFirstResult ==
  \A a \in Apps :
    ~_authResult[a] => \A i \in DOMAIN calls : calls[i].topic \notin TopicsOf(a)

C3_Witness ==
  /\ last.kind \in PublicEvents
  /\ ~_authResult[last.app]
  /\ NumSubs(subscriptions, TopicsOf(last.app)) = 2
  /\ calls = <<>>

\* an autoVerified or error event of the key has been re-published to a
\* listener of the key
TerminalSeen(requestKey) ==
  \E a \in Apps :
    requests[<<a, requestKey>>] \in {"AutoVerified", "Errored", "AfterTerminal"}

\* C4: for any request key, over every sequence of phone_auth_state_changed
\* events received for it, at most one autoVerified or error event is
\* re-published to the key's listeners, and once it has been, no further
\* event of that key is delivered to any listener.
C4_OneTerminalPhasePerKey ==
  [][(/\ last'.kind = "phone_auth_state_changed"
      /\ TerminalSeen(last'.arg.requestKey)) => calls' = <<>>]_vars

\* C5: a phone-auth event tagged with request key R1 only runs handlers of
\* requests whose key is R1.
C5_Demultiplexing ==
  last.kind = "phone_auth_state_changed" =>
    \A i \in DOMAIN calls :
      calls[i].listener.requestKey = last.arg.requestKey

C5_Witness ==
  /\ last.kind = "phone_auth_state_changed"
  /\ last.arg.requestKey = <<"k1">>
  /\ last.arg.type = "error"
  /\ requests[<<last.app, <<"k1", ":", "error">>>>] = "Started"
  /\ Len(calls) = 1

\* C6: a state notification or a resolved sign-in / sign-out of application a
\* leaves the currentUser and the authoritative-result flag of every other
\* application b unchanged and invokes no listener on b's three topics.
C6_TenantIsolation ==
  [][\A a \in Apps, b \in Apps :
       (/\ a # b
        /\ last'.app = a
        /\ last'.kind \in StateNotifications \cup {"resolved"}) =>
         /\ _user'[b] = _user[b]
         /\ _authResult'[b] = _authResult[b]
         /\ \A i \in DOMAIN calls' : calls'[i].topic \notin TopicsOf(b)]_vars

C6_Witness ==
  /\ last.kind = "auth_state_changed"
  /\ last.app = "appA"
  /\ _user["appA"] = null
  /\ Truthy(_user["appB"])
  /\ Len(subscriptions[getAppEventName("appB", "onAuthStateChanged")]) = 1
  /\ Len(calls) = 1

\* C7: a phone_auth_state_changed event delivered on one application's
\* channel only runs phase handlers of requests started on that application.
C7_PhoneTenantIsolation ==
  last.kind = "phone_auth_state_changed" =>
    \A i \in DOMAIN calls : calls[i].listener.app = last.app

\* C8: when the provider call of a direct operation is rejected, currentUser
\* and the authoritative-result flag keep their values, no listener is
\* invoked, and the caller's promise rejects with the provider's error.
C8_RejectionChangesNothing ==
  [][last'.kind = "rejected" =>
       /\ _user' = _user
       /\ _authResult' = _authResult
       /\ calls' = <<>>
       /\ last'.ret = [status |-> "rejected", value |-> last'.arg.result]]_vars

C8_Witness ==
  /\ last.kind = "rejected"
  /\ last.arg.op = "createUserAndRetrieveDataWithEmailAndPassword"
  /\ Truthy(_user[last.app])
  /\ Len(subscriptions[getAppEventName(last.app, "onUserChanged")]) = 1

\* C9: when signOut resolves while currentUser is populated, currentUser
\* becomes null and there is exactly one publication on user-changed, with
\* payload null, reaching every registered onUserChanged listener once.
C9_SignOutClearsUser ==
  (/\ last.kind = "resolved"
   /\ last.arg.op = "signOut"
   /\ Truthy(last.before.user)) =>
     /\ _user[last.app] = null
     /\ OnePublication(getAppEventName(last.app, "onUserChanged"), null)

C9_Witness ==
  /\ last.kind = "resolved"
  /\ last.arg.op = "signOut"
  /\ Truthy(last.before.user)
  /\ _user[last.app] = null
  /\ Len(calls) = 2

\* C10: when a *AndRetrieveData operation resolves with a raw credential
\* whose user has uid U, the result's user has uid U, currentUser is that
\* user, additionalUserInfo is passed through, and there is exactly one
\* publication on user-changed, carrying that user.
C10_CredentialResult ==
  (last.kind = "resolved" /\ last.arg.op \in CredentialOps) =>
     LET raw == last.arg.result
         res == last.ret.value
     IN /\ res.user._user.uid = raw.user.uid
        /\ res.user.auth = last.app
        /\ _user[last.app] = res.user
        /\ res.additionalUserInfo = raw.additionalUserInfo
        /\ OnePublication(getAppEventName(last.app, "onUserChanged"), res.user)

C10_Witness ==
  /\ last.kind = "resolved"
  /\ last.arg.op = "createUserAndRetrieveDataWithEmailAndPassword"
  /\ last.arg.result.user.uid = "u1"
  /\ last.arg.result.additionalUserInfo = "info1"
  /\ Truthy(last.before.user)
  /\ Len(calls) = 2


\* C11: an unsupported method (getRedirectResult, setPersistence,
\* signInWithPopup, signInWithRedirect, useDeviceLanguage) called in any
\* state throws the unsupported-method error synchronously and leaves
\* currentUser, the authoritative-result flag and the listeners alone,
\* invoking none of them.
C11_UnsupportedAlwaysThrows ==
  [][last'.kind = "unsupported" =>
       /\ last'.ret = [status |-> "thrown",
                       value |-> <<"unsupported", "auth", last'.arg>>]
       /\ last'.arg \in UnsupportedMethods
       /\ _user' = _user
       /\ _authResult' = _authResult
       /\ subscriptions' = subscriptions
       /\ pending' = pending
       /\ calls' = <<>>]_vars

C11_Witness ==
  /\ last.kind = "unsupported"
  /\ last.arg = "signInWithRedirect"
  /\ last.ret.status = "thrown"
  /\ Truthy(_user[last.app])
  /\ NumSubs(subscriptions, TopicsOf(last.app)) = 2
  /\ Len(pending) = 1


\* C13: the authoritative-result flag is false at construction; every
\* state notification and every resolved direct operation leaves it true,
\* also with an absent payload, and no step ever resets it.
C13_AuthResultLatches ==
  /\ \A a \in Apps : ~_authResult[a]
  /\ [][\A a \in Apps :
          /\ _authResult[a] => _authResult'[a]
          /\ (last'.app = a
              /\ last'.kind \in StateNotifications \cup {"resolved"}) =>
               _authResult'[a]]_vars

C13_Witness ==
  /\ last.kind \in StateNotifications
  /\ last.arg.user = undefined
  /\ last.before = [user |-> null, authResult |-> TRUE]
  /\ _authResult[last.app]

\* the invocations the last step made through one topic
CallsOn(topic) == SelectSeq(calls, LAMBDA c : c.topic = topic)
\* one publication on the topic: each registration invoked once, in order
OnceOn(topic) ==
  /\ Len(CallsOn(topic)) = Len(subscriptions[topic])
  /\ \A i \in DOMAIN CallsOn(topic) :
       CallsOn(topic)[i].listener = subscriptions[topic][i]
NoneOn(topic) == CallsOn(topic) = <<>>

\* C15: auth_state_changed publishes once on auth-state-changed and once on
\* user-changed and not on id-token-changed; auth_id_token_changed publishes
\* once on id-token-changed and once on user-changed and not on
\* auth-state-changed; a resolved direct operation publishes once on
\* user-changed and on neither of the other two.
C15_PublicationsPerWriter ==
  LET authState == getAppEventName(last.app, "onAuthStateChanged")
      idToken == getAppEventName(last.app, "onIdTokenChanged")
      userChanged == getAppEventName(last.app, "onUserChanged")
  IN /\ last.kind = "auth_state_changed" =>
          OnceOn(authState) /\ OnceOn(userChanged) /\ NoneOn(idToken)
     /\ last.kind = "auth_id_token_changed" =>
          OnceOn(idToken) /\ OnceOn(userChanged) /\ NoneOn(authState)
     /\ last.kind = "resolved" =>
          OnceOn(userChanged) /\ NoneOn(authState) /\ NoneOn(idToken)

C15_Witness ==
  /\ last.kind = "auth_id_token_changed"
  /\ Len(subscriptions[getAppEventName(last.app, "onAuthStateChanged")]) = 1
  /\ Len(subscriptions[getAppEventName(last.app, "onIdTokenChanged")]) = 1
  /\ Len(calls) = 1
  /\ calls[1].topic = getAppEventName(last.app, "onIdTokenChanged")

\* C17: every payload handed to a listener of auth-state-changed,
\* id-token-changed or user-changed is currentUser as it stands at that
\* delivery, and after a writer it is the snapshot that writer set.
C17_PublishedSnapshotIsCurrent ==
  /\ \A i \in DOMAIN calls :
       calls[i].topic \in PublicTopics =>
         calls[i].payload = _user[calls[i].topic[1]]
  /\ last.kind \in StateNotifications =>
       \A i \in DOMAIN calls :
         calls[i].payload = Adapted(last.app, last.arg.user)

C17_Witness ==
  /\ last.kind = "auth_state_changed"
  /\ Truthy(last.before.user)
  /\ Truthy(_user[last.app])
  /\ last.before.user # _user[last.app]
  /\ Len(CallsOn(getAppEventName(last.app, "onAuthStateChanged"))) = 1
  /\ Len(CallsOn(getAppEventName(last.app, "onUserChanged"))) = 1


\* how often the step that is ending invoked listener l
Invocations(cs, l) == Cardinality({i \in DOMAIN cs : cs[i].listener = l})

\* C14: one phone event with request key R and phase P invokes exactly the
\* listeners registered for (R, P), each once and with the event's state,
\* and no listener registered for another phase of R.
C14_PhoneEventDispatch ==
  [][last'.kind = "phone_auth_state_changed" =>
       LET e == last'.arg
       IN /\ \A t \in AllTopics : \A i \in DOMAIN subscriptions[t] :
               LET l == subscriptions[t][i]
               IN Invocations(calls', l) =
                    IF l.requestKey = e.requestKey /\ l.fn = e.type
                    THEN 1 ELSE 0
          /\ \A i \in DOMAIN calls' :
               /\ calls'[i].payload = e.state
               /\ \E j \in DOMAIN subscriptions[calls'[i].topic] :
                    subscriptions[calls'[i].topic][j] = calls'[i].listener]_vars

C14_Witness ==
  /\ last.kind = "phone_auth_state_changed"
  /\ last.arg.type = "codeSent"
  /\ calls # <<>>
  /\ \E i \in DOMAIN subscriptions[eventKey(last.arg.requestKey, "error")] :
       subscriptions[eventKey(last.arg.requestKey, "error")][i].requestKey
         = last.arg.requestKey

\* C20: a phone_auth_state_changed event of any type and request key
\* leaves currentUser and the authoritative-result flag as they were and
\* invokes no listener of auth-state-changed, id-token-changed or
\* user-changed; autoVerified does not sign the user in.
C20_PhoneEventsLeaveSession ==
  [][last'.kind = "phone_auth_state_changed" =>
       /\ _user' = _user
       /\ _authResult' = _authResult
       /\ \A i \in DOMAIN calls' :
            /\ calls'[i].topic \notin PublicTopics
            /\ IsPhaseHandler(calls'[i].listener)]_vars

C20_Witness ==
  /\ last.kind = "phone_auth_state_changed"
  /\ last.arg.type = "autoVerified"
  /\ calls # <<>>
  /\ NumSubs(subscriptions, TopicsOf(last.app)) = 2
  /\ _user[last.app] = null
  /\ _authResult[last.app]


\* C12: calling a returned unsubscribe again, or when its listener is
\* already gone, raises nothing and leaves the listeners of every topic as
\* the first call left them, also when the function had been registered
\* more than once.
C12_UnsubscribeIdempotent ==
  [][last'.kind = "unsubscribe" =>
       /\ last'.ret = undefined
       /\ calls' = <<>>
       /\ last'.before.registered = 0 => subscriptions' = subscriptions
       /\ (last.kind = "unsubscribe" /\ last.arg = last'.arg) =>
            subscriptions' = subscriptions]_vars

C12_Witness ==
  /\ last.kind = "unsubscribe"
  /\ last.before.registered = 0
  /\ NumSubs(subscriptions, TopicsOf(last.app)) = 1

\* C18: a returned unsubscribe takes exactly its listener off exactly its
\* topic; the other listeners of that topic and all listeners of the other
\* two topics, the same function included, stay, and a later notification
\* invokes exactly the listeners that are still registered.
C18_UnsubscribeFrame ==
  [][/\ last'.kind = "unsubscribe" =>
          LET h == last'.arg
          IN /\ \A i \in DOMAIN subscriptions'[h.topic] :
                  subscriptions'[h.topic][i] # h.listener
             /\ SelectSeq(subscriptions'[h.topic], LAMBDA x : x # h.listener)
                  = SelectSeq(subscriptions[h.topic], LAMBDA x : x # h.listener)
             /\ \A t \in AllTopics \ {h.topic} :
                  subscriptions'[t] = subscriptions[t]
     /\ last'.kind \in StateNotifications =>
          LET own == IF last'.kind = "auth_state_changed"
                     THEN "onAuthStateChanged" ELSE "onIdTokenChanged"
              published == {getAppEventName(last'.app, own),
                            getAppEventName(last'.app, "onUserChanged")}
          IN \A t \in TopicsOf(last'.app), l \in Listeners :
               Cardinality({i \in DOMAIN calls' :
                              calls'[i].topic = t /\ calls'[i].listener = l})
                 = IF t \in published
                   THEN Len(SelectSeq(subscriptions'[t], LAMBDA x : x = l))
                   ELSE 0]_vars

C18_Witness ==
  /\ last.kind = "auth_state_changed"
  /\ \E h \in handles :
       /\ h.topic = getAppEventName(last.app, "onUserChanged")
       /\ \A i \in DOMAIN subscriptions[h.topic] :
            subscriptions[h.topic][i] # h.listener
       /\ Len(calls) = 1
       /\ calls[1].listener = h.listener
       /\ calls[1].topic = getAppEventName(last.app, "onAuthStateChanged")


\* what a step wrote into currentUser, if it is a writer
IsWriter(l) == l.kind \in StateNotifications \cup {"resolved"}
Written(l) ==
  CASE l.kind \in StateNotifications -> Adapted(l.app, l.arg.user)
    [] l.kind = "resolved" /\ l.arg.op = "signOut" -> null
    [] l.kind = "resolved" /\ l.arg.op \in SetUserOps ->
         Adapted(l.app, l.arg.result)
    [] l.kind = "resolved" /\ l.arg.op \in CredentialOps ->
         User(l.app, l.arg.result.user)

\* C16: however state-changed notifications, id-token-changed notifications
\* and completions of in-flight direct operations interleave, currentUser
\* is the adapted payload of the writer processed last (absent after
\* signOut); a sign-in resolving after a later-started signOut has resolved
\* still writes its user.
C16_LastWriterWins ==
  [][\A a \in Apps :
       IF IsWriter(last') /\ last'.app = a
       THEN _user'[a] = Written(last')
       ELSE _user'[a] = _user[a]]_vars

C16_Witness ==
  /\ last.kind = "resolved"
  /\ last.arg.op = "signInAndRetrieveDataWithEmailAndPassword"
  /\ last.arg.overtaken
  /\ last.before = [user |-> null, authResult |-> TRUE]
  /\ _user[last.app] = User(last.app, NativeUser("u1"))


\* C19: one auth_state_changed (resp. auth_id_token_changed) notification
\* invokes each listener of the onAuthStateChanged (resp. onIdTokenChanged)
\* topic at most once per registration, also a listener that a user-changed
\* listener registers on that topic while the notification is delivered.
C19_AtMostOncePerNotification ==
  last.kind \in StateNotifications =>
    LET own == getAppEventName(last.app,
                 IF last.kind = "auth_state_changed"
                 THEN "onAuthStateChanged" ELSE "onIdTokenChanged")
    IN \A k \in DOMAIN subscriptions[own] :
         LET l == subscriptions[own][k]
         IN Cardinality({i \in DOMAIN calls :
                           calls[i].topic = own /\ calls[i].listener = l})
              <= Len(SelectSeq(subscriptions[own], LAMBDA x : x = l))

====
